---- MODULE Spec2Model ----
(***************************************************************************)
(* A model of go-jwlm's merge of two JW Library backups: the generic row   *)
(* helpers of package model (UpdateIDs, sortByUniqueKey, UniqueKey and      *)
(* Equals of the entities) and the driver of cmd/merge.go.                  *)
(*                                                                         *)
(* Go slices are 0-indexed, TLA+ sequences 1-indexed: the element at Go     *)
(* index i is s[i + 1]; At(s, i) reads it.                                  *)
(* Go strings that are compared or sorted are sequences of byte values.     *)
(***************************************************************************)
EXTENDS Integers, Sequences, FiniteSets, TLC

\* Bounds of the model.
MaxID == 2
MaxLen == 2

(***************************************************************************)
(* Values                                                                  *)
(***************************************************************************)

\* A nil pointer in a slice of row pointers.
Nil == [nil |-> TRUE]

IsNil(r) == DOMAIN r = {"nil"}

\* database/sql's NullInt32 and NullString: a value slot and a present bit.
NullInt32(n, valid) == [Int32 |-> n, Valid |-> valid]

NullString(s, valid) == [String |-> s, Valid |-> valid]

At(s, i) == s[i + 1]

\* A Go map[int]int is a function on a finite set of integers.
EmptyMap == [k \in {} |-> 0]

HasKey(m, k) == k \in DOMAIN m

(***************************************************************************)
(* The row types: field name -> Go type of the field.                      *)
(***************************************************************************)
BookmarkFields ==
    [BookmarkID |-> "int", LocationID |-> "int", PublicationLocationID |-> "int",
     Slot |-> "int", Title |-> "string", Snippet |-> "NullString",
     BlockType |-> "int", BlockIdentifier |-> "NullInt32"]

LocationFields ==
    [LocationID |-> "int", BookNumber |-> "NullInt32", ChapterNumber |-> "NullInt32",
     DocumentID |-> "NullInt32", Track |-> "NullInt32", IssueTagNumber |-> "int",
     KeySymbol |-> "NullString", MepsLanguage |-> "int", LocationType |-> "int",
     Title |-> "NullString"]

NoteFields ==
    [NoteID |-> "int", GUID |-> "string", UserMarkID |-> "NullInt32",
     LocationID |-> "NullInt32", Title |-> "NullString", Content |-> "NullString",
     LastModified |-> "string", BlockType |-> "int", BlockIdentifier |-> "NullInt32"]

TagFields == [TagID |-> "int", TagType |-> "int", Name |-> "string"]

TagMapFields ==
    [TagMapID |-> "int", PlaylistItemID |-> "NullInt32", LocationID |-> "NullInt32",
     NoteID |-> "NullInt32", TagID |-> "int", Position |-> "int"]

UserMarkFields ==
    [UserMarkID |-> "int", ColorIndex |-> "int", LocationID |-> "int",
     StyleIndex |-> "int", UserMarkGUID |-> "string", Version |-> "int"]

BlockRangeFields ==
    [BlockRangeID |-> "int", BlockType |-> "int", Identifier |-> "int",
     StartToken |-> "int", EndToken |-> "int", UserMarkID |-> "int"]

StructFields ==
    [Bookmark |-> BookmarkFields, Location |-> LocationFields, Note |-> NoteFields,
     Tag |-> TagFields, TagMap |-> TagMapFields, UserMark |-> UserMarkFields,
     BlockRange |-> BlockRangeFields]

\* The field that holds the ID of a row of each type (Model.ID, Model.SetID).
IDFields ==
    [Bookmark |-> "BookmarkID", Location |-> "LocationID", Note |-> "NoteID",
     Tag |-> "TagID", TagMap |-> "TagMapID", UserMark |-> "UserMarkID",
     BlockRange |-> "BlockRangeID"]

\* reflect: the struct type a non-nil row pointer points to.
TypeOfRow(row) ==
    CASE "BookmarkID" \in DOMAIN row -> "Bookmark"
      [] "TagMapID" \in DOMAIN row -> "TagMap"
      [] "BlockRangeID" \in DOMAIN row -> "BlockRange"
      [] "NoteID" \in DOMAIN row -> "Note"
      [] "UserMarkID" \in DOMAIN row -> "UserMark"
      [] "TagID" \in DOMAIN row -> "Tag"
      [] OTHER -> "Location"

\* reflect: FieldByName(name) and the dynamic type of the field ("invalid" when
\* the struct has no such field).
FieldKind(row, name) ==
    LET f == StructFields[TypeOfRow(row)]
    IN  IF name \in DOMAIN f THEN f[name] ELSE "invalid"

(***************************************************************************)
(* model.UpdateIDs                                                         *)
(***************************************************************************)

\* UpdateRow with the new ID looked up again in the mapping (a chained lookup).
UpdateRowChained(row, IDName, changes) ==
    LET kind == FieldKind(row, IDName)
        New(v) == IF HasKey(changes, changes[v]) THEN changes[changes[v]] ELSE changes[v]
    IN  CASE kind = "invalid" ->
               [row |-> row, panic |-> "Given struct does not contain field"]
          [] kind = "int" ->
               [row |-> IF HasKey(changes, row[IDName])
                        THEN [row EXCEPT ![IDName] = New(row[IDName])]
                        ELSE row,
                panic |-> ""]
          [] kind = "NullInt32" ->
               [row |-> IF HasKey(changes, row[IDName].Int32)
                        THEN [row EXCEPT ![IDName].Int32 = New(row[IDName].Int32)]
                        ELSE row,
                panic |-> ""]
          [] OTHER ->
               [row |-> row, panic |-> "Type of field is not supported!"]

\* UpdateRow with the new ID written one too high (an index/ID slip).
UpdateRowOffByOne(row, IDName, changes) ==
    LET kind == FieldKind(row, IDName)
    IN  CASE kind = "invalid" ->
               [row |-> row, panic |-> "Given struct does not contain field"]
          [] kind = "int" ->
               [row |-> IF HasKey(changes, row[IDName])
                        THEN [row EXCEPT ![IDName] = changes[row[IDName]] + 1]
                        ELSE row,
                panic |-> ""]
          [] kind = "NullInt32" ->
               [row |-> IF HasKey(changes, row[IDName].Int32)
                        THEN [row EXCEPT ![IDName].Int32 = changes[row[IDName].Int32] + 1]
                        ELSE row,
                panic |-> ""]
          [] OTHER ->
               [row |-> row, panic |-> "Type of field is not supported!"]

\* One iteration of the loop of UpdateIDs on a non-nil row: the row after it, or
\* the panic it raises. The IDs of the model are far below 2^31, so the int32
\* slot of a nullable field holds every new ID as it is.
UpdateRow(row, IDName, changes) ==
    LET kind == FieldKind(row, IDName)
    IN  CASE kind = "invalid" ->
               [row |-> row, panic |-> "Given struct does not contain field"]
          [] kind = "int" ->
               [row |-> IF HasKey(changes, row[IDName])
                        THEN [row EXCEPT ![IDName] = changes[row[IDName]]]
                        ELSE row,
                panic |-> ""]
          [] kind = "NullInt32" ->
               [row |-> IF HasKey(changes, row[IDName].Int32)
                        THEN [row EXCEPT ![IDName].Int32 = changes[row[IDName].Int32]]
                        ELSE row,
                panic |-> ""]
          [] OTHER ->
               [row |-> row, panic |-> "Type of field is not supported!"]

\* The loop of UpdateIDs from Go index i on: the rows are rewritten in place, in
\* order, and a panic leaves the rows after it as they were.
RECURSIVE UpdateFrom(_, _, _, _)
UpdateFrom(s, i, IDName, changes) ==
    IF i >= Len(s) THEN [rows |-> s, panic |-> ""]
    ELSE IF IsNil(At(s, i)) THEN UpdateFrom(s, i + 1, IDName, changes)
    ELSE LET r == UpdateRow(At(s, i), IDName, changes)
         IN  IF r.panic # "" THEN [rows |-> s, panic |-> r.panic]
             ELSE UpdateFrom([s EXCEPT ![i + 1] = r.row], i + 1, IDName, changes)

\* model.Bookmark{}: a struct value, handed to UpdateIDs where a slice is meant.
ZeroBookmark ==
    [BookmarkID |-> 0, LocationID |-> 0, PublicationLocationID |-> 0, Slot |-> 0,
     Title |-> "", Snippet |-> NullString("", FALSE), BlockType |-> 0,
     BlockIdentifier |-> NullInt32(0, FALSE)]

\* reflect.TypeOf(mdl).Kind() of an argument of UpdateIDs: a list of rows is a
\* slice, the struct value is not.
Kind(mdl) == IF mdl = ZeroBookmark THEN "struct" ELSE "slice"

UpdateIDs(mdl, IDName, changes) ==
    IF Kind(mdl) = "slice" THEN UpdateFrom(mdl, 0, IDName, changes)
    ELSE [rows |-> mdl, panic |-> "Only slices are supported!"]

\* merger.UpdateIDs(left, right, IDName, changes): the Left mapping on the left
\* list, then the Right mapping on the right list.
MergerUpdateIDs(left, right, IDName, changes) ==
    LET l == UpdateIDs(left, IDName, changes.Left)
    IN  IF l.panic # "" THEN [left |-> l.rows, right |-> right, panic |-> l.panic]
        ELSE LET r == UpdateIDs(right, IDName, changes.Right)
             IN  [left |-> l.rows, right |-> r.rows, panic |-> r.panic]

(***************************************************************************)
(* Strings and UniqueKey                                                   *)
(***************************************************************************)

\* strconv.FormatInt(n, 10): the decimal digits of n as bytes, "-" first when
\* n is negative.
RECURSIVE Digits(_)
Digits(n) == IF n < 10 THEN <<48 + n>> ELSE Digits(n \div 10) \o <<48 + (n % 10)>>

FormatInt(n) == IF n < 0 THEN <<45>> \o Digits(-n) ELSE Digits(n)

\* The byte "_" that separates the parts of a key.
Underscore == <<95>>

\* Go's < on strings: bytewise lexicographic order.
StringLess(a, b) ==
    \E k \in 0..Len(a) :
        /\ k <= Len(b)
        /\ \A i \in 1..k : a[i] = b[i]
        /\ IF k = Len(a) THEN k < Len(b)
           ELSE k < Len(b) /\ a[k + 1] < b[k + 1]

\* Bookmark.UniqueKey
BookmarkUniqueKey(m) ==
    FormatInt(m.PublicationLocationID) \o Underscore \o FormatInt(m.Slot)

\* Location.UniqueKey with the title written into the key as well.
LocationUniqueKeyWithTitle(m) ==
    FormatInt(m.BookNumber.Int32) \o Underscore \o
    FormatInt(m.ChapterNumber.Int32) \o Underscore \o
    FormatInt(m.DocumentID.Int32) \o Underscore \o
    FormatInt(m.Track.Int32) \o Underscore \o
    FormatInt(m.IssueTagNumber) \o Underscore \o
    m.KeySymbol.String \o Underscore \o
    FormatInt(m.MepsLanguage) \o Underscore \o
    FormatInt(m.LocationType) \o Underscore \o m.Title.String

\* Location.UniqueKey: the numeric slot of a nullable field is written
\* whether or not the field is present.
LocationUniqueKey(m) ==
    FormatInt(m.BookNumber.Int32) \o Underscore \o
    FormatInt(m.ChapterNumber.Int32) \o Underscore \o
    FormatInt(m.DocumentID.Int32) \o Underscore \o
    FormatInt(m.Track.Int32) \o Underscore \o
    FormatInt(m.IssueTagNumber) \o Underscore \o
    m.KeySymbol.String \o Underscore \o
    FormatInt(m.MepsLanguage) \o Underscore \o
    FormatInt(m.LocationType)

\* The keys of the entities whose code is not at hand, as the data model
\* states them: type_name, tagId_(noteId or locationId or playlistItemId)_position,
\* the GUID, blockType_identifier_startToken_endToken_userMarkId, the GUID.
TagUniqueKey(m) == FormatInt(m.TagType) \o Underscore \o m.Name

TagMapUniqueKey(m) ==
    FormatInt(m.TagID) \o Underscore \o
    FormatInt(IF m.NoteID.Valid THEN m.NoteID.Int32
              ELSE IF m.LocationID.Valid THEN m.LocationID.Int32
              ELSE m.PlaylistItemID.Int32) \o Underscore \o
    FormatInt(m.Position)

UserMarkUniqueKey(m) == m.UserMarkGUID

BlockRangeUniqueKey(m) ==
    FormatInt(m.BlockType) \o Underscore \o FormatInt(m.Identifier) \o Underscore \o
    FormatInt(m.StartToken) \o Underscore \o FormatInt(m.EndToken) \o Underscore \o
    FormatInt(m.UserMarkID)

NoteUniqueKey(m) == m.GUID

\* Model.UniqueKey, dispatched on the row's type.
UniqueKey(row) ==
    CASE TypeOfRow(row) = "Bookmark" -> BookmarkUniqueKey(row)
      [] TypeOfRow(row) = "Location" -> LocationUniqueKey(row)
      [] TypeOfRow(row) = "Tag" -> TagUniqueKey(row)
      [] TypeOfRow(row) = "TagMap" -> TagMapUniqueKey(row)
      [] TypeOfRow(row) = "UserMark" -> UserMarkUniqueKey(row)
      [] TypeOfRow(row) = "BlockRange" -> BlockRangeUniqueKey(row)
      [] TypeOfRow(row) = "Note" -> NoteUniqueKey(row)

IDField(row) == IDFields[TypeOfRow(row)]

ID(row) == row[IDField(row)]

SetID(row, id) == [row EXCEPT ![IDField(row)] = id]

(***************************************************************************)
(* Equals                                                                  *)
(***************************************************************************)

\* Bookmark.Equals: every field but the BookmarkID.
BookmarkEquals(m, m2) ==
    /\ m.LocationID = m2.LocationID
    /\ m.PublicationLocationID = m2.PublicationLocationID
    /\ m.Slot = m2.Slot
    /\ m.Title = m2.Title
    /\ m.Snippet = m2.Snippet
    /\ m.BlockType = m2.BlockType
    /\ m.BlockIdentifier = m2.BlockIdentifier

\* Location.Equals
LocationEquals(m, m2) == FALSE

\* UserMark.Equals with the GUID compared as well.
UserMarkEqualsWithGUID(m, m2) ==
    /\ m.ColorIndex = m2.ColorIndex
    /\ m.LocationID = m2.LocationID
    /\ m.StyleIndex = m2.StyleIndex
    /\ m.UserMarkGUID = m2.UserMarkGUID
    /\ m.Version = m2.Version

\* UserMark.Equals: TestUserMark_Equals has two marks that differ in
\* UserMarkID and UserMarkGUID equal, and two that differ in ColorIndex not.
UserMarkEquals(m, m2) ==
    /\ m.ColorIndex = m2.ColorIndex
    /\ m.LocationID = m2.LocationID
    /\ m.StyleIndex = m2.StyleIndex
    /\ m.Version = m2.Version

TagEquals(m, m2) == m.TagType = m2.TagType /\ m.Name = m2.Name

\* Every field but the ID.
SameButID(m, m2) == \A f \in DOMAIN m \ {IDField(m)} : m[f] = m2[f]

TagMapEquals(m, m2) == SameButID(m, m2)

NoteEquals(m, m2) == SameButID(m, m2)

\* A BlockRange compared as part of its UserMark: neither the BlockRangeID nor
\* the UserMarkID counts.
BlockRangeEquals(m, m2) ==
    \A f \in DOMAIN m \ {"BlockRangeID", "UserMarkID"} : m[f] = m2[f]

\* Model.Equals, dispatched on the row's type; rows of different types differ.
Equals(m, m2) ==
    IF TypeOfRow(m) # TypeOfRow(m2) THEN FALSE
    ELSE CASE TypeOfRow(m) = "Bookmark" -> BookmarkEquals(m, m2)
           [] TypeOfRow(m) = "Location" -> LocationEquals(m, m2)
           [] TypeOfRow(m) = "Tag" -> TagEquals(m, m2)
           [] TypeOfRow(m) = "TagMap" -> TagMapEquals(m, m2)
           [] TypeOfRow(m) = "UserMark" -> UserMarkEquals(m, m2)
           [] TypeOfRow(m) = "BlockRange" -> BlockRangeEquals(m, m2)
           [] TypeOfRow(m) = "Note" -> NoteEquals(m, m2)

(***************************************************************************)
(* sortByUniqueKey                                                         *)
(***************************************************************************)

\* The less function handed to sort.Slice: nil is smaller than every row, rows
\* compare by UniqueKey.
Less(a, b) ==
    IF IsNil(b) THEN FALSE
    ELSE IF IsNil(a) THEN TRUE
    ELSE StringLess(UniqueKey(a), UniqueKey(b))

IndexOrders(n) == {p \in [1..n -> 1..n] : \A i, j \in 1..n : i # j => p[i] # p[j]}

\* sort.Slice is not stable: it leaves the elements in some order in which no
\* later element is less than an earlier one; which one is not specified.
SortSlice(s) ==
    {t \in {[i \in 1..Len(s) |-> s[p[i]]] : p \in IndexOrders(Len(s))} :
        \A i, j \in 1..Len(s) : i < j => ~Less(t[j], t[i])}

NilCount(s) == Cardinality({i \in 1..Len(s) : IsNil(s[i])})

\* TrimNils cutting one entry too far: no nil entry is kept.
TrimNilsAll(s) ==
    IF NilCount(s) > 1 THEN SubSeq(s, NilCount(s) + 1, Len(s)) ELSE s

\* "If there are more than one nil values, remove all except one".
TrimNils(s) ==
    IF NilCount(s) > 1 THEN SubSeq(s, NilCount(s), Len(s)) ELSE s

\* "Update IDs to their index": the loop from Go index i on, with the changes
\* recorded so far.
RECURSIVE Renumber(_, _, _)
Renumber(s, i, changes) ==
    IF i >= Len(s) THEN [slice |-> s, changes |-> changes]
    ELSE IF IsNil(At(s, i)) THEN Renumber(s, i + 1, changes)
    ELSE IF ID(At(s, i)) # i
         THEN Renumber([s EXCEPT ![i + 1] = SetID(At(s, i), i)], i + 1,
                       [k \in DOMAIN changes \cup {ID(At(s, i))} |->
                            IF k = ID(At(s, i)) THEN i ELSE changes[k]])
         ELSE Renumber(s, i + 1, changes)

\* sortByUniqueKey(&slice): the slice it leaves and the map it returns, for every
\* order sort.Slice may produce.
sortByUniqueKey(slice) ==
    {Renumber(TrimNils(t), 0, EmptyMap) : t \in SortSlice(slice)}

(***************************************************************************)
(* The mergers of package merger. Their code is not at hand: they follow the *)
(* merge skeleton of the design (group by UniqueKey, one survivor per key,  *)
(* a conflict where the rows of a key disagree and no solution is given,    *)
(* survivors sorted and renumbered by sortByUniqueKey, every original ID    *)
(* mapped to its survivor's new ID).                                        *)
(***************************************************************************)
Rows(list) == {list[i] : i \in 1..Len(list)} \ {Nil}

WithKey(list, k) == {r \in Rows(list) : UniqueKey(r) = k}

Keys(left, right) == {UniqueKey(r) : r \in Rows(left) \cup Rows(right)}

LowestID(S) == CHOOSE r \in S : \A q \in S : ID(r) <= ID(q)

SetToSeq(S) ==
    CHOOSE q \in [1..Cardinality(S) -> S] : \A x \in S : \E i \in 1..Cardinality(S) : q[i] = x

\* merger.IDChanges
IDChanges(l, r) == [Left |-> l, Right |-> r]

NoChanges == IDChanges(EmptyMap, EmptyMap)

\* merger.MergeConflict and merger.MergeSolution
MergeConflict(l, r) == [Left |-> l, Right |-> r]

MergeSolution(side, solution, discarded) ==
    [Side |-> side, Solution |-> solution, Discarded |-> discarded]

\* What a merger returns: the merged list and the ID changes, or an error (a
\* MergeConflictError with its conflicts, or another error).
Merged(list, changes) ==
    [err |-> "", merged |-> list, changes |-> changes, conflicts |-> EmptyMap]

ConflictError(conflicts) ==
    [err |-> "conflict", merged |-> <<>>, changes |-> NoChanges, conflicts |-> conflicts]

OtherError ==
    [err |-> "error", merged |-> <<>>, changes |-> NoChanges, conflicts |-> EmptyMap]

\* The rows of key k agree: they are pairwise Equal, or the table never conflicts.
Agree(left, right, k, neverConflict) ==
    neverConflict \/ \A a, b \in WithKey(left, k) \cup WithKey(right, k) : Equals(a, b)

Unsolved(left, right, solution, neverConflict) ==
    {k \in Keys(left, right) :
        ~Agree(left, right, k, neverConflict) /\ k \notin DOMAIN solution}

\* The row that survives for key k: the Left one where the rows agree, the
\* solution's where they do not.
Survivor(left, right, solution, neverConflict, k) ==
    IF Agree(left, right, k, neverConflict)
    THEN IF WithKey(left, k) # {} THEN LowestID(WithKey(left, k))
         ELSE LowestID(WithKey(right, k))
    ELSE solution[k].Solution

\* The new ID of every row of list: the ID of the merged row with its key.
NewIDs(list, merged) ==
    [id \in {ID(r) : r \in Rows(list)} |->
        ID(CHOOSE m \in Rows(merged) :
              UniqueKey(m) = UniqueKey(CHOOSE r \in Rows(list) : ID(r) = id))]

mergeTable(left, right, solution, neverConflict) ==
    IF Unsolved(left, right, solution, neverConflict) # {}
    THEN {ConflictError([k \in Unsolved(left, right, solution, neverConflict) |->
                            MergeConflict(LowestID(WithKey(left, k)),
                                          LowestID(WithKey(right, k)))])}
    ELSE {Merged(r.slice, IDChanges(NewIDs(left, r.slice), NewIDs(right, r.slice))) :
             r \in sortByUniqueKey(
                      <<Nil>> \o SetToSeq({Survivor(left, right, solution, neverConflict, k) :
                                              k \in Keys(left, right)}))}

\* Locations never conflict: the rows of a key are one Location.
MergeLocations(left, right) == mergeTable(left, right, EmptyMap, TRUE)

MergeBookmarks(left, right, solution) == mergeTable(left, right, solution, FALSE)

MergeTags(left, right, solution) == mergeTable(left, right, solution, FALSE)

MergeTagMaps(left, right, solution) == mergeTable(left, right, solution, FALSE)

MergeNotes(left, right, solution) == mergeTable(left, right, solution, FALSE)

(***************************************************************************)
(* UserMarks and BlockRanges are merged as one: a UserMark with the         *)
(* BlockRanges that name it (model.UserMarkBlockRange).                     *)
(***************************************************************************)
UserMarkBlockRange(um, brs) == [UserMark |-> um, BlockRanges |-> brs]

IsBlockRangeOf(br, um) == ~IsNil(br) /\ br.UserMarkID = um.UserMarkID

RECURSIVE BlockRangesOf(_, _)
BlockRangesOf(brs, um) ==
    IF brs = <<>> THEN <<>>
    ELSE IF IsBlockRangeOf(Head(brs), um) THEN <<Head(brs)>> \o BlockRangesOf(Tail(brs), um)
    ELSE BlockRangesOf(Tail(brs), um)

joinToUserMarkBlockRange(ums, brs) ==
    {UserMarkBlockRange(um, BlockRangesOf(brs, um)) : um \in Rows(ums)}

CountEqual(brs, br) == Cardinality({i \in 1..Len(brs) : BlockRangeEquals(brs[i], br)})

UserMarkBlockRangeEquals(m, m2) ==
    /\ UserMarkEquals(m.UserMark, m2.UserMark)
    /\ Len(m.BlockRanges) = Len(m2.BlockRanges)
    /\ \A i \in 1..Len(m.BlockRanges) :
          CountEqual(m.BlockRanges, m.BlockRanges[i])
              = CountEqual(m2.BlockRanges, m.BlockRanges[i])

Guid(c) == c.UserMark.UserMarkGUID

WithGuid(cs, g) == {c \in cs : Guid(c) = g}

LowestMark(cs) == CHOOSE c \in cs : \A q \in cs : c.UserMark.UserMarkID <= q.UserMark.UserMarkID

MarksAgree(l, r, g) ==
    \A a, b \in WithGuid(l, g) \cup WithGuid(r, g) : UserMarkBlockRangeEquals(a, b)

Guids(l, r) == {Guid(c) : c \in l \cup r}

UnsolvedGuids(l, r, solution) ==
    {g \in Guids(l, r) : ~MarksAgree(l, r, g) /\ g \notin DOMAIN solution}

MarkSurvivor(l, r, solution, g) ==
    IF MarksAgree(l, r, g)
    THEN IF WithGuid(l, g) # {} THEN LowestMark(WithGuid(l, g)) ELSE LowestMark(WithGuid(r, g))
    ELSE solution[g].Solution

\* Two BlockRanges cover common text; two marks overlap when they are at one
\* location and a BlockRange of one covers text of the other.
RangesIntersect(x, y) ==
    /\ x.BlockType = y.BlockType
    /\ x.Identifier = y.Identifier
    /\ x.StartToken <= y.EndToken
    /\ y.StartToken <= x.EndToken

Overlap(a, b) ==
    /\ Guid(a) # Guid(b)
    /\ a.UserMark.LocationID = b.UserMark.LocationID
    /\ \E i \in 1..Len(a.BlockRanges), j \in 1..Len(b.BlockRanges) :
          RangesIntersect(a.BlockRanges[i], b.BlockRanges[j])

\* The key of an overlap: the two GUIDs, the smaller first.
OverlapKey(a, b) ==
    IF StringLess(Guid(a), Guid(b)) THEN Guid(a) \o Underscore \o Guid(b)
    ELSE Guid(b) \o Underscore \o Guid(a)

\* The marks that lose an overlap to the solution given for it.
Losers(cs, solution) ==
    {c \in cs : \E w \in cs :
        /\ Overlap(c, w)
        /\ OverlapKey(c, w) \in DOMAIN solution
        /\ Guid(solution[OverlapKey(c, w)].Solution) # Guid(c)}

\* The GUID of the mark that stands for the mark of GUID g in the end.
FinalGuid(cs, solution, g) ==
    IF \E c \in Losers(cs, solution) : Guid(c) = g
    THEN Guid(CHOOSE w \in cs \ Losers(cs, solution) :
                 \E c \in cs : Guid(c) = g /\ Overlap(c, w)
                               /\ OverlapKey(c, w) \in DOMAIN solution)
    ELSE g

\* The BlockRanges of the marks in the order of ms, renumbered by position from
\* first on, each naming its mark's new ID.
RECURSIVE Flatten(_, _, _)
Flatten(ms, cs, first) ==
    IF ms = <<>> THEN <<>>
    ELSE LET brs == (CHOOSE c \in cs : Guid(c) = Head(ms).UserMarkGUID).BlockRanges
         IN  [i \in 1..Len(brs) |->
                 [brs[i] EXCEPT !.BlockRangeID = first + i - 1,
                                !.UserMarkID = Head(ms).UserMarkID]]
             \o Flatten(Tail(ms), cs, first + Len(brs))

MarkNewIDs(side, cs, solution, merged) ==
    [id \in {c.UserMark.UserMarkID : c \in side} |->
        ID(CHOOSE m \in Rows(merged) :
              m.UserMarkGUID =
                  FinalGuid(cs, solution,
                            Guid(CHOOSE c \in side : c.UserMark.UserMarkID = id)))]

MergedMarks(userMarks, blockRanges, changes) ==
    [err |-> "", userMarks |-> userMarks, blockRanges |-> blockRanges,
     changes |-> changes, conflicts |-> EmptyMap]

MarksError(err, conflicts) ==
    [err |-> err, userMarks |-> <<>>, blockRanges |-> <<>>, changes |-> NoChanges,
     conflicts |-> conflicts]

\* The marks that survive the merge by GUID, then the overlaps among them.
mergeMarks(l, r, solution) ==
    LET cs == {MarkSurvivor(l, r, solution, g) : g \in Guids(l, r)}
        open == {p \in cs \X cs :
                    /\ StringLess(Guid(p[1]), Guid(p[2]))
                    /\ Overlap(p[1], p[2])
                    /\ OverlapKey(p[1], p[2]) \notin DOMAIN solution}
        side(c) == IF c \in l THEN "Left" ELSE "Right"
        winners == cs \ Losers(cs, solution)
    IN  IF open # {}
        THEN {MarksError("conflict",
                         [k \in {OverlapKey(p[1], p[2]) : p \in open} |->
                             LET p == CHOOSE q \in open : OverlapKey(q[1], q[2]) = k
                             IN  IF side(p[1]) = "Left" THEN MergeConflict(p[1], p[2])
                                 ELSE MergeConflict(p[2], p[1])])}
        ELSE {MergedMarks(s.slice,
                          <<Nil>> \o Flatten(Tail(s.slice), winners, 1),
                          IDChanges(MarkNewIDs(l, cs, solution, s.slice),
                                    MarkNewIDs(r, cs, solution, s.slice))) :
                 s \in sortByUniqueKey(<<Nil>> \o SetToSeq({c.UserMark : c \in winners}))}

MergeUserMarkAndBlockRange(leftUM, leftBR, rightUM, rightBR, solution) ==
    LET l == joinToUserMarkBlockRange(leftUM, leftBR)
        r == joinToUserMarkBlockRange(rightUM, rightBR)
    IN  IF UnsolvedGuids(l, r, solution) # {}
        THEN {MarksError("conflict",
                         [g \in UnsolvedGuids(l, r, solution) |->
                             MergeConflict(LowestMark(WithGuid(l, g)),
                                           LowestMark(WithGuid(r, g)))])}
        ELSE mergeMarks(l, r, solution)

(***************************************************************************)
(* State                                                                   *)
(***************************************************************************)
VARIABLES
    upd,    \* a call of merger.UpdateIDs: its arguments, the lists it rewrites
    srt,    \* a call of sortByUniqueKey: its argument, the slice and map it leaves
    eqv,    \* a call of UserMark.Equals: the two marks and the result
    left,       \* merge: the left Database, rewritten as the merge goes on
    right,      \* merge: the right Database, rewritten as the merge goes on
    merged,     \* merge: the merged Database
    orig,       \* the two Databases as they were imported
    pc,         \* merge: the call it is about to make, or how it ended
    conflicts,  \* the Conflicts of the MergeConflictError being handled
    solution,   \* the conflict solution of the loop merge is in
    changes,    \* the IDChanges merge holds, by the merger that returned them
    lastErr,    \* what each merger returned last: "" for no error
    applied,    \* how often the changes of each merger were handed to UpdateIDs
    exported    \* ExportJWLBackup has been called

driver ==
    <<left, right, merged, orig, pc, conflicts, solution, changes, lastErr, applied,
      exported>>

vars == <<upd, srt, eqv, driver>>

\* No call of the kind is under way.
Idle == [pc |-> "idle"]

\* The calls made apart from merge.
calls == <<upd, srt, eqv>>

\* merge is not run.
DriverIdle ==
    /\ left = Idle /\ right = Idle /\ merged = Idle /\ orig = Idle
    /\ pc = "idle" /\ conflicts = Idle /\ solution = Idle
    /\ changes = Idle /\ lastErr = Idle /\ applied = Idle /\ exported = FALSE

(***************************************************************************)
(* Calls of UpdateIDs on lists of Notes (nullable LocationID) and of       *)
(* Bookmarks (mandatory LocationID).                                       *)
(***************************************************************************)
IDs == 1..MaxID

NoteRow(id, loc) ==
    [NoteID |-> id, GUID |-> <<>>, UserMarkID |-> NullInt32(1, TRUE),
     LocationID |-> loc, Title |-> NullString("", FALSE),
     Content |-> NullString("", FALSE), LastModified |-> "", BlockType |-> 1,
     BlockIdentifier |-> NullInt32(1, TRUE)]

BookmarkRow(id, loc, publ, slot, title) ==
    [BookmarkID |-> id, LocationID |-> loc, PublicationLocationID |-> publ,
     Slot |-> slot, Title |-> title, Snippet |-> NullString("", FALSE),
     BlockType |-> 1, BlockIdentifier |-> NullInt32(1, TRUE)]

UpdNoteRows ==
    {Nil} \cup {NoteRow(1, NullInt32(n, v)) : n \in IDs, v \in BOOLEAN}

UpdBookmarkRows == {Nil} \cup {BookmarkRow(1, n, 1, 1, "") : n \in IDs}

Lists(rows, n) == UNION {[1..k -> rows] : k \in 0..n}

Maps(keys, vals) == UNION {[D -> vals] : D \in SUBSET keys}

OneEntryMaps(keys, vals) ==
    {EmptyMap} \cup {[k \in {d} |-> v] : d \in keys, v \in vals}

UpdRowSets == {UpdNoteRows, UpdBookmarkRows}

UpdStart(l, r, cl, cr) ==
    [pc |-> "args", name |-> "LocationID", changes |-> [Left |-> cl, Right |-> cr],
     left0 |-> l, right0 |-> r, left |-> l, right |-> r,
     once |-> [left |-> <<>>, right |-> <<>>], panic |-> ""]

Reverse(s) == [i \in 1..Len(s) |-> s[Len(s) + 1 - i]]

\* The right list holds the rows of the left list in reverse order; the two
\* mappings are chosen independently.
UpdInit ==
    /\ \E rows \in UpdRowSets :
        \E l \in Lists(rows, MaxLen) :
            \E cl \in Maps(IDs, IDs), cr \in OneEntryMaps(IDs, IDs) :
                upd = UpdStart(l, Reverse(l), cl, cr)
    /\ srt = Idle
    /\ eqv = Idle
    /\ DriverIdle

\* UpdateIDs(left, right, name, changes) is called on the argument lists.
UpdCall ==
    /\ upd.pc = "args"
    /\ \E r \in {MergerUpdateIDs(upd.left, upd.right, upd.name, upd.changes)} :
           upd' = [upd EXCEPT !.pc = IF r.panic # "" THEN "panicked" ELSE "once",
                              !.left = r.left, !.right = r.right,
                              !.once = [left |-> r.left, right |-> r.right],
                              !.panic = r.panic]
    /\ UNCHANGED <<srt, eqv, driver>>

\* The same call is made a second time on the lists the first call left.
UpdAgain ==
    /\ upd.pc = "once"
    /\ \E r \in {MergerUpdateIDs(upd.left, upd.right, upd.name, upd.changes)} :
           upd' = [upd EXCEPT !.pc = IF r.panic # "" THEN "panicked" ELSE "twice",
                              !.left = r.left, !.right = r.right,
                              !.panic = r.panic]
    /\ UNCHANGED <<srt, eqv, driver>>

UpdNext == UpdCall \/ UpdAgain

SpecUpdateIDs == UpdInit /\ [][UpdNext]_vars

\* Calls of UpdateIDs that name a field it cannot rewrite, or hand it a struct:
\* the arguments of TestUpdateIDs_Bookmarks, with lists of every content (empty,
\* nil entries only, Bookmarks, Notes) on either side.
PanicNames == {"LocationID", "WrongField", "Title", "Slot"}

PanicArgs ==
    Lists({Nil, BookmarkRow(1, 1, 1, 1, "")}, MaxLen)
    \cup Lists({Nil, NoteRow(1, NullInt32(1, TRUE))}, MaxLen)
    \cup {ZeroBookmark}

PanicInit ==
    /\ \E l \in PanicArgs, r \in PanicArgs, name \in PanicNames :
          upd = [UpdStart(l, r, [k \in {1} |-> 2], [k \in {1} |-> 2])
                    EXCEPT !.name = name]
    /\ srt = Idle
    /\ eqv = Idle
    /\ DriverIdle

SpecUpdatePanics == PanicInit /\ [][UpdNext]_vars

(***************************************************************************)
(* Properties of UpdateIDs                                                 *)
(***************************************************************************)

\* The integer the named field of a non-nil row holds (the numeric slot of a
\* nullable field).
FieldInt(row, name) ==
    IF FieldKind(row, name) = "NullInt32" THEN row[name].Int32 ELSE row[name]

Lookup(m, k) == IF k \in DOMAIN m THEN m[k] ELSE k

\* list is list0 with the named field of every non-nil row looked up once in m.
RewrittenOnce(list0, list, name, m) ==
    /\ Len(list) = Len(list0)
    /\ \A i \in 1..Len(list0) :
          IF IsNil(list0[i]) THEN IsNil(list[i])
          ELSE /\ ~IsNil(list[i])
               /\ DOMAIN list[i] = DOMAIN list0[i]
               /\ FieldInt(list[i], name) = Lookup(m, FieldInt(list0[i], name))
               /\ \A f \in DOMAIN list0[i] \ {name} : list[i][f] = list0[i][f]
               /\ FieldKind(list0[i], name) = "NullInt32"
                    => list[i][name].Valid = list0[i][name].Valid

\* No absent nullable field of list0 differs in list.
AbsentUntouched(list0, list, name) ==
    /\ Len(list) = Len(list0)
    /\ \A i \in 1..Len(list0) :
          (/\ ~IsNil(list0[i])
           /\ FieldKind(list0[i], name) = "NullInt32"
           /\ ~list0[i][name].Valid)
          => list[i] = list0[i]

\* C4: UpdateIDs leaves a nullable foreign key whose present bit is unset
\* unchanged, numeric slot and present bit, whatever the id_changes map holds.
C4_AbsentFKUntouched ==
    upd.pc = "once" =>
        /\ AbsentUntouched(upd.left0, upd.left, upd.name)
        /\ AbsentUntouched(upd.right0, upd.right, upd.name)

\* C5: after UpdateIDs(left, right, field, changes) every non-nil row of left
\* holds changes.Left[value] where value was a key of changes.Left, every
\* non-nil row of right changes.Right[value] likewise, each looked up once
\* against its original value; other rows, nil entries, other fields, the
\* length and the order are as before.
C5_UpdateIDsRewrites ==
    upd.pc = "once" =>
        /\ RewrittenOnce(upd.left0, upd.left, upd.name, upd.changes.Left)
        /\ RewrittenOnce(upd.right0, upd.right, upd.name, upd.changes.Right)

\* C5, its case: a call that rewrote a row of the left list, next to a nil
\* entry, and left a row of the right list alone whose value is a key of the
\* Left mapping only, while it rewrote another by the Right mapping.
C5_Witness ==
    /\ upd.pc = "once"
    /\ \E i, j \in 1..Len(upd.left0) :
          /\ IsNil(upd.left0[i])
          /\ ~IsNil(upd.left0[j]) /\ upd.left[j] # upd.left0[j]
    /\ \E i \in 1..Len(upd.right0) :
          /\ ~IsNil(upd.right0[i])
          /\ FieldInt(upd.right0[i], upd.name) \in DOMAIN upd.changes.Left
          /\ upd.right[i] = upd.right0[i]
    /\ upd.changes.Right # EmptyMap

\* A mapping none of whose values is a key mapped to another value.
NoChain(m) == \A k \in DOMAIN m : m[k] \in DOMAIN m => m[m[k]] = m[k]

\* C6 as stated: for every list and mapping, UpdateIDs applied twice gives what
\* it gives applied once.
C6_Idempotent ==
    upd.pc = "twice" => upd.left = upd.once.left /\ upd.right = upd.once.right

\* C6, amended: UpdateIDs applied twice gives what it gives applied once for every
\* list and every mapping none of whose values is a key mapped to another value.
C6_IdempotentNoChain ==
    upd.pc = "twice" =>
        /\ NoChain(upd.changes.Left) => upd.left = upd.once.left
        /\ NoChain(upd.changes.Right) => upd.right = upd.once.right

\* C6, its case: a second call with a chain-free mapping that has a value which is
\* also a key, after a first call that rewrote a row.
C6_Witness ==
    /\ upd.pc = "twice"
    /\ NoChain(upd.changes.Left)
    /\ \E k \in DOMAIN upd.changes.Left :
          upd.changes.Left[k] # k /\ upd.changes.Left[k] \in DOMAIN upd.changes.Left
    /\ upd.once.left # upd.left0

\* UpdateIDs cannot rewrite the named field of any row type: no type has it,
\* or has it as an int or a NullInt32.
Unsupported(name) ==
    \A t \in DOMAIN StructFields :
        name \notin DOMAIN StructFields[t]
        \/ StructFields[t][name] \notin {"int", "NullInt32"}

\* The argument is one UpdateIDs has to fail on: no slice, or a list whose rows
\* do not have the named field as an int or a NullInt32 (the row type of a list
\* without a row is known only where no type has such a field).
MustPanic(mdl, name) ==
    IF Kind(mdl) # "slice" THEN TRUE
    ELSE \/ Unsupported(name)
         \/ \E i \in 1..Len(mdl) :
               ~IsNil(mdl[i]) /\ FieldKind(mdl[i], name) \notin {"int", "NullInt32"}

\* C11: UpdateIDs panics whenever the named field does not exist on the row
\* type or is neither an int nor a NullInt32, and whenever an argument is not a
\* slice, whatever the lists hold (nothing, nil entries only); and when it
\* panics no row of either list has been modified.
C11_PanicsAndLeavesRows ==
    (upd.pc \in {"once", "panicked"}
     /\ (MustPanic(upd.left0, upd.name) \/ MustPanic(upd.right0, upd.name)))
    => /\ upd.pc = "panicked"
       /\ upd.left = upd.left0
       /\ upd.right = upd.right0

(***************************************************************************)
(* Calls of sortByUniqueKey on lists of Bookmarks                          *)
(***************************************************************************)
SortMaxLen == 3

\* PublicationLocationIDs whose decimal strings sort otherwise than the numbers.
SortPublications == {1, 2, 10}

SortRows ==
    {Nil} \cup {BookmarkRow(id, 1, publ, 1, "") : id \in IDs, publ \in SortPublications}

SortInit ==
    /\ \E l \in Lists(SortRows, SortMaxLen) :
          srt = [pc |-> "args", in |-> l, slice |-> l, changes |-> EmptyMap,
                 old |-> <<>>]
    /\ upd = Idle
    /\ eqv = Idle
    /\ DriverIdle

\* sortByUniqueKey(&slice) is called on the argument. old is the slice as the
\* call had it when the ID update loop began: sorted and trimmed, every row
\* with the ID it came with.
SortCall ==
    /\ srt.pc = "args"
    /\ \E r \in sortByUniqueKey(srt.slice) :
       \E t \in {TrimNils(u) : u \in SortSlice(srt.slice)} :
          /\ Renumber(t, 0, EmptyMap) = r
          /\ srt' = [srt EXCEPT !.pc = "sorted", !.slice = r.slice,
                                !.changes = r.changes, !.old = t]
    /\ UNCHANGED <<upd, eqv, driver>>

SortNext == SortCall

SpecSort == SortInit /\ [][SortNext]_vars

(***************************************************************************)
(* Properties of sortByUniqueKey                                           *)
(***************************************************************************)

\* One nil entry, at index 0; every row at the index that is its ID; the rows
\* in non-decreasing order of UniqueKey.
WellFormed(s) ==
    /\ Len(s) >= 1
    /\ IsNil(At(s, 0))
    /\ \A i \in 1..(Len(s) - 1) : ~IsNil(At(s, i)) /\ ID(At(s, i)) = i
    /\ \A i, j \in 1..(Len(s) - 1) :
          i < j => ~StringLess(UniqueKey(At(s, j)), UniqueKey(At(s, i)))

\* C7 as stated: for every input list, none of its entries nil included, the list
\* sortByUniqueKey leaves has exactly one nil, at index 0, every row at the index
\* equal to its ID, and the rows in non-decreasing order of UniqueKey.
C7_SortedEveryInput == srt.pc = "sorted" => WellFormed(srt.slice)

\* C7, amended: the same for every input list that holds at least one nil entry.
C7_SortedWithNil ==
    (srt.pc = "sorted" /\ NilCount(srt.in) >= 1) => WellFormed(srt.slice)

\* C7, its case: a list of two rows out of key order followed by its only nil
\* entry has been sorted.
C7_Witness ==
    /\ srt.pc = "sorted"
    /\ NilCount(srt.in) >= 1
    /\ Len(srt.in) = 3
    /\ ~IsNil(At(srt.in, 0)) /\ ~IsNil(At(srt.in, 1))
    /\ Less(At(srt.in, 1), At(srt.in, 0))
    /\ srt.slice # srt.in

\* The old ID of every row of the slice, looked up in the changes (an absent
\* key meaning unchanged), is the ID the row has now.
DescribesRenumbering(old, slice, m) ==
    /\ Len(slice) = Len(old)
    /\ \A i \in 1..Len(old) :
          IF IsNil(old[i]) THEN IsNil(slice[i])
          ELSE /\ ~IsNil(slice[i])
               /\ Lookup(m, ID(old[i])) = ID(slice[i])

\* No two rows of the list have the same ID.
DistinctIDs(s) ==
    \A i, j \in 1..Len(s) :
        (i # j /\ ~IsNil(s[i]) /\ ~IsNil(s[j])) => ID(s[i]) # ID(s[j])

\* C15: for every input row list, several rows of the same old ID included, the
\* map sortByUniqueKey returns describes the renumbering: the old ID of every
\* non-nil row, looked up in the map (an absent key meaning unchanged), gives
\* the row's new ID.
C15_ChangesDescribeRenumbering ==
    srt.pc = "sorted" => DescribesRenumbering(srt.old, srt.slice, srt.changes)

\* The same for the input lists whose rows have distinct IDs.
C15_DistinctIDsDescribed ==
    (srt.pc = "sorted" /\ DistinctIDs(srt.in))
    => DescribesRenumbering(srt.old, srt.slice, srt.changes)

\* A list of two rows with distinct IDs has been sorted and both rows renumbered.
C15_DistinctRenumbered ==
    /\ srt.pc = "sorted"
    /\ DistinctIDs(srt.in)
    /\ Cardinality(DOMAIN srt.changes) = 2

(***************************************************************************)
(* Calls of UserMark.Equals                                             *)
(***************************************************************************)

\* The GUIDs "FIRST" and "FIRSTT" of TestUserMark_Equals.
GuidFirst == <<70, 73, 82, 83, 84>>

GuidFirstt == <<70, 73, 82, 83, 84, 84>>

UserMarkRow(id, color, loc, style, guid, version) ==
    [UserMarkID |-> id, ColorIndex |-> color, LocationID |-> loc,
     StyleIndex |-> style, UserMarkGUID |-> guid, Version |-> version]

EqUserMarks ==
    {UserMarkRow(id, color, loc, style, guid, version) :
        id \in {1, 1000}, color \in {1, 5}, loc \in IDs, style \in {1, 2},
        guid \in {GuidFirst, GuidFirstt}, version \in {1, 2}}

EqInit ==
    /\ \E m \in EqUserMarks, m2 \in EqUserMarks :
          eqv = [pc |-> "args", m |-> m, m2 |-> m2, equal |-> FALSE]
    /\ upd = Idle
    /\ srt = Idle
    /\ DriverIdle

\* m.Equals(m2) is called.
EqCall ==
    /\ eqv.pc = "args"
    /\ eqv' = [eqv EXCEPT !.pc = "returned", !.equal = Equals(eqv.m, eqv.m2)]
    /\ UNCHANGED <<upd, srt, driver>>

EqNext == EqCall

SpecEquals == EqInit /\ [][EqNext]_vars

\* C9 as stated: two UserMarks are Equal if and only if colorIndex, locationId,
\* styleIndex, guid and version agree; the UserMarkID alone is left out.
C9_EqualsComparesGUID ==
    eqv.pc = "returned" =>
        (eqv.equal <=> \A f \in {"ColorIndex", "LocationID", "StyleIndex",
                                 "UserMarkGUID", "Version"} : eqv.m[f] = eqv.m2[f])

\* C9, amended: two UserMarks are Equal if and only if colorIndex, locationId,
\* styleIndex and version agree; the UserMarkID and the UserMarkGUID are left out.
C9_EqualsIgnoresGUID ==
    eqv.pc = "returned" =>
        (eqv.equal <=> \A f \in {"ColorIndex", "LocationID", "StyleIndex", "Version"} :
                           eqv.m[f] = eqv.m2[f])

\* C9, its case: the marks m1 and m1_1 of TestUserMark_Equals, which differ in
\* UserMarkID and UserMarkGUID only, have been compared and found equal.
C9_Witness ==
    /\ eqv.pc = "returned"
    /\ eqv.m = UserMarkRow(1, 1, 1, 1, GuidFirst, 1)
    /\ eqv.m2 = UserMarkRow(1000, 1, 1, 1, GuidFirstt, 1)
    /\ eqv.equal

(***************************************************************************)
(* merge: the two imported Databases                                       *)
(***************************************************************************)
Absent == NullInt32(0, FALSE)

Present(n) == NullInt32(n, TRUE)

TitleA == <<97>>

TitleB == <<98>>

NameX == <<120>>

NameY == <<121>>

GuidNote1 == <<78, 49>>

GuidNote2 == <<78, 50>>

\* model.Database, the tables merge reads and writes
Database(locations, bookmarks, tags, tagMaps, userMarks, blockRanges, notes) ==
    [Location |-> locations, Bookmark |-> bookmarks, Tag |-> tags, TagMap |-> tagMaps,
     UserMark |-> userMarks, BlockRange |-> blockRanges, Note |-> notes]

\* model.Database{}
EmptyDatabase == Database(<<>>, <<>>, <<>>, <<>>, <<>>, <<>>, <<>>)

LocationRow(id, doc, track, title) ==
    [LocationID |-> id, BookNumber |-> Absent, ChapterNumber |-> Absent,
     DocumentID |-> Present(doc), Track |-> track, IssueTagNumber |-> 0,
     KeySymbol |-> NullString(<<>>, FALSE), MepsLanguage |-> 0, LocationType |-> 0,
     Title |-> NullString(title, TRUE)]

TagRow(id, name) == [TagID |-> id, TagType |-> 1, Name |-> name]

TagMapRow(id, loc, note, tag) ==
    [TagMapID |-> id, PlaylistItemID |-> Absent, LocationID |-> loc, NoteID |-> note,
     TagID |-> tag, Position |-> 0]

BlockRangeRow(id, start, end, um) ==
    [BlockRangeID |-> id, BlockType |-> 1, Identifier |-> 1, StartToken |-> start,
     EndToken |-> end, UserMarkID |-> um]

NoteRowOf(id, guid, um, loc, content) ==
    [NoteRow(id, loc) EXCEPT !.GUID = guid, !.UserMarkID = um,
                             !.Content = NullString(content, TRUE)]

\* The ID of the last row of a list that ends in a row.
LastID(list) == Len(list) - 1

\* The left Database: one row in every table, all at its last Location.
LeftLocations ==
    {<<Nil, LocationRow(1, 1, Absent, TitleA)>>,
     <<Nil, LocationRow(1, 2, Absent, TitleA), LocationRow(2, 1, Absent, TitleA)>>}

LeftDatabase(locations) ==
    Database(locations,
             <<Nil, BookmarkRow(1, LastID(locations), LastID(locations), 1, TitleA)>>,
             <<Nil, TagRow(1, NameX)>>,
             <<Nil, TagMapRow(1, Absent, Present(1), 1)>>,
             <<Nil, UserMarkRow(1, 1, LastID(locations), 1, GuidFirst, 1)>>,
             <<Nil, BlockRangeRow(1, 3, 7, 1)>>,
             <<Nil, NoteRowOf(1, GuidNote1, Present(1), Present(LastID(locations)), TitleA)>>)

\* The right Database: in every table no row, the row of the left Database, a
\* row that disagrees with it, or a row of its own; all at its last Location.
RightLocations ==
    {<<Nil, LocationRow(1, 1, Absent, TitleA)>>,
     <<Nil, LocationRow(1, 1, Present(0), TitleB)>>,
     <<Nil, LocationRow(1, 2, Absent, TitleA)>>,
     <<Nil, Nil, LocationRow(2, 1, Present(0), TitleB)>>,
     <<Nil, LocationRow(1, 1, Present(0), TitleB), LocationRow(2, 2, Absent, TitleB)>>}

RightBookmarks(loc) ==
    {<<Nil>>,
     <<Nil, BookmarkRow(1, loc, loc, 1, TitleA)>>,
     <<Nil, BookmarkRow(1, loc, loc, 1, TitleB)>>}

RightTags == {<<Nil>>, <<Nil, TagRow(1, NameX)>>, <<Nil, TagRow(1, NameY)>>}

Marks(userMarks, blockRanges) == [UserMark |-> userMarks, BlockRange |-> blockRanges]

RightMarks(loc) ==
    {Marks(<<Nil>>, <<Nil>>),
     Marks(<<Nil, UserMarkRow(1, 1, loc, 1, GuidFirst, 1)>>, <<Nil, BlockRangeRow(1, 3, 7, 1)>>),
     Marks(<<Nil, UserMarkRow(1, 5, loc, 1, GuidFirst, 1)>>, <<Nil, BlockRangeRow(1, 3, 7, 1)>>),
     Marks(<<Nil, UserMarkRow(1, 1, loc, 1, GuidFirstt, 1)>>, <<Nil, BlockRangeRow(1, 5, 9, 1)>>),
     Marks(<<Nil, UserMarkRow(1, 1, loc, 1, GuidFirstt, 1)>>, <<Nil, BlockRangeRow(1, 8, 9, 1)>>),
     Marks(<<Nil, UserMarkRow(1, 1, loc, 1, GuidFirstt, 1), UserMarkRow(2, 5, loc, 1, GuidFirst, 1)>>,
           <<Nil, BlockRangeRow(1, 3, 7, 2), BlockRangeRow(2, 5, 9, 1)>>)}

RightNotes(loc, um) ==
    {<<Nil>>,
     <<Nil, NoteRowOf(1, GuidNote1, um, Present(loc), TitleA)>>,
     <<Nil, NoteRowOf(1, GuidNote1, um, Present(loc), TitleB)>>,
     <<Nil, NoteRowOf(1, GuidNote2, um, Present(loc), TitleA)>>}

\* A TagMap needs a Tag; it is on the Note where there is one, else on the Location.
RightTagMaps(loc, tags, notes) ==
    {<<Nil>>} \cup
    IF Len(tags) = 1 THEN {}
    ELSE IF Len(notes) = 1 THEN {<<Nil, TagMapRow(1, Present(loc), Absent, 1)>>}
    ELSE {<<Nil, TagMapRow(1, Absent, Present(1), 1)>>}

Tables == {"Locations", "Bookmarks", "Tags", "TagMaps", "UserMarks", "Notes"}

\* merge after the two backups are imported (merge.go, up to merged := Database{}).
\* merge.go: the state of merge() once both backups are imported and nothing
\* is merged yet.
Imported ==
    /\ upd = Idle
    /\ srt = Idle
    /\ eqv = Idle
    /\ merged = EmptyDatabase
    /\ orig = [Left |-> left, Right |-> right]
    /\ pc = "MergeLocations"
    /\ conflicts = EmptyMap
    /\ solution = EmptyMap
    /\ changes = [t \in {"Locations", "Tags", "UserMarks", "Notes"} |-> NoChanges]
    /\ lastErr = [t \in Tables |-> "none"]
    /\ applied = [t \in {"Locations", "Tags", "UserMarks", "Notes"} |-> 0]
    /\ exported = FALSE

Init ==
    /\ \E ll \in LeftLocations : left = LeftDatabase(ll)
    /\ \E rl \in RightLocations, rt \in RightTags :
        \E rb \in RightBookmarks(LastID(rl)), rm \in RightMarks(LastID(rl)) :
        \E rn \in RightNotes(LastID(rl),
                             IF Len(rm.UserMark) = 1 THEN Absent ELSE Present(1)) :
        \E rtm \in RightTagMaps(LastID(rl), rt, rn) :
           right = Database(rl, rb, rt, rtm, rm.UserMark, rm.BlockRange, rn)
    /\ Imported

(***************************************************************************)
(* merge, one action for each call of a merger with what follows it up to  *)
(* the next call. The FK fields merge names exist and are int or NullInt32, *)
(* so that UpdateIDs does not panic on them.                                *)
(***************************************************************************)

\* Failed with the merged Database dropped on the way.
FailedDroppingMerged(out, handler) ==
    /\ pc' = IF out.err = "conflict" THEN handler ELSE "fatal"
    /\ conflicts' = out.conflicts
    /\ merged' = EmptyDatabase
    /\ UNCHANGED <<left, right, changes, applied, solution>>

\* A merger returned an error: handleMergeConflict on a MergeConflictError,
\* log.Fatal on any other.
Failed(out, handler) ==
    /\ pc' = IF out.err = "conflict" THEN handler ELSE "fatal"
    /\ conflicts' = out.conflicts
    /\ UNCHANGED <<left, right, merged, changes, applied, solution>>

\* merge.go: MergeLocations, whose error is not looked at, and the four
\* UpdateIDs that follow it.
MergeLocationsStep ==
    /\ pc = "MergeLocations"
    /\ \E out \in MergeLocations(left.Location, right.Location) \cup {OtherError} :
       \E b \in {MergerUpdateIDs(left.Bookmark, right.Bookmark, "LocationID", out.changes)} :
       \E p \in {MergerUpdateIDs(b.left, b.right, "PublicationLocationID", out.changes)} :
       \E n \in {MergerUpdateIDs(left.Note, right.Note, "LocationID", out.changes)} :
       \E t \in {MergerUpdateIDs(left.TagMap, right.TagMap, "LocationID", out.changes)} :
          /\ merged' = [merged EXCEPT !.Location = out.merged]
          /\ left' = [left EXCEPT !.Bookmark = p.left, !.Note = n.left, !.TagMap = t.left]
          /\ right' = [right EXCEPT !.Bookmark = p.right, !.Note = n.right,
                                    !.TagMap = t.right]
          /\ changes' = [changes EXCEPT !.Locations = out.changes]
          /\ applied' = [applied EXCEPT !.Locations = @ + 1]
          /\ lastErr' = [lastErr EXCEPT !.Locations = out.err]
    /\ pc' = "MergeBookmarks"
    /\ UNCHANGED <<orig, conflicts, solution, exported, calls>>

\* merge.go: the Bookmarks loop
MergeBookmarksStep ==
    /\ pc = "MergeBookmarks"
    /\ \E out \in MergeBookmarks(left.Bookmark, right.Bookmark, solution) \cup {OtherError} :
          /\ lastErr' = [lastErr EXCEPT !.Bookmarks = out.err]
          /\ IF out.err = ""
             THEN /\ merged' = [merged EXCEPT !.Bookmark = out.merged]
                  /\ pc' = "MergeTags"
                  /\ conflicts' = EmptyMap
                  /\ solution' = EmptyMap
                  /\ UNCHANGED <<left, right, changes, applied>>
             ELSE Failed(out, "HandleBookmarks")
    /\ UNCHANGED <<orig, exported, calls>>

\* merge.go: the Tags loop
MergeTagsStep ==
    /\ pc = "MergeTags"
    /\ \E out \in MergeTags(left.Tag, right.Tag, solution) \cup {OtherError} :
          /\ lastErr' = [lastErr EXCEPT !.Tags = out.err]
          /\ IF out.err = ""
             THEN \E t \in {MergerUpdateIDs(left.TagMap, right.TagMap, "TagID", out.changes)} :
                  /\ merged' = [merged EXCEPT !.Tag = out.merged]
                  /\ left' = [left EXCEPT !.TagMap = t.left]
                  /\ right' = [right EXCEPT !.TagMap = t.right]
                  /\ changes' = [changes EXCEPT !.Tags = out.changes]
                  /\ applied' = [applied EXCEPT !.Tags = @ + 1]
                  /\ pc' = "MergeTagMaps"
                  /\ conflicts' = EmptyMap
                  /\ solution' = EmptyMap
             ELSE Failed(out, "HandleTags")
    /\ UNCHANGED <<orig, exported, calls>>

\* merge.go: the TagMaps loop
MergeTagMapsStep ==
    /\ pc = "MergeTagMaps"
    /\ \E out \in MergeTagMaps(left.TagMap, right.TagMap, solution) \cup {OtherError} :
          /\ lastErr' = [lastErr EXCEPT !.TagMaps = out.err]
          /\ IF out.err = ""
             THEN /\ merged' = [merged EXCEPT !.TagMap = out.merged]
                  /\ pc' = "MergeUserMarks"
                  /\ conflicts' = EmptyMap
                  /\ solution' = EmptyMap
                  /\ UNCHANGED <<left, right, changes, applied>>
             ELSE Failed(out, "HandleTagMaps")
    /\ UNCHANGED <<orig, exported, calls>>

\* merge.go: the loop of UserMarks and BlockRanges
MergeUserMarksStep ==
    /\ pc = "MergeUserMarks"
    /\ \E out \in MergeUserMarkAndBlockRange(left.UserMark, left.BlockRange,
                                             right.UserMark, right.BlockRange, solution)
                  \cup {MarksError("error", EmptyMap)} :
          /\ lastErr' = [lastErr EXCEPT !.UserMarks = out.err]
          /\ IF out.err = ""
             THEN \E n \in {MergerUpdateIDs(left.Note, right.Note, "UserMarkID", out.changes)} :
                  /\ merged' = [merged EXCEPT !.UserMark = out.userMarks,
                                              !.BlockRange = out.blockRanges]
                  /\ left' = [left EXCEPT !.Note = n.left]
                  /\ right' = [right EXCEPT !.Note = n.right]
                  /\ changes' = [changes EXCEPT !.UserMarks = out.changes]
                  /\ applied' = [applied EXCEPT !.UserMarks = @ + 1]
                  /\ pc' = "MergeNotes"
                  /\ conflicts' = EmptyMap
                  /\ solution' = EmptyMap
             ELSE Failed(out, "HandleUserMarks")
    /\ UNCHANGED <<orig, exported, calls>>

\* merge.go: the Notes loop. UpdateIDs is given the merged TagMaps and nil: the
\* Left mapping is applied to the merged TagMaps; on the nil list UpdateIDs
\* either does nothing or panics (reflect.TypeOf(nil).Kind()), which the code
\* at hand does not settle.
MergeNotesStep ==
    /\ pc = "MergeNotes"
    /\ \E out \in MergeNotes(left.Note, right.Note, solution) \cup {OtherError} :
          /\ lastErr' = [lastErr EXCEPT !.Notes = out.err]
          /\ IF out.err = ""
             THEN \E t \in {MergerUpdateIDs(merged.TagMap, <<>>, "NoteID", out.changes)} :
                  \E nilPanics \in BOOLEAN :
                  /\ merged' = [merged EXCEPT !.Note = out.merged, !.TagMap = t.left]
                  /\ changes' = [changes EXCEPT !.Notes = out.changes]
                  /\ applied' = [applied EXCEPT !.Notes = @ + 1]
                  /\ pc' = IF nilPanics THEN "panic" ELSE "Export"
                  /\ conflicts' = EmptyMap
                  /\ solution' = EmptyMap
                  /\ UNCHANGED <<left, right>>
             ELSE Failed(out, "HandleNotes")
    /\ UNCHANGED <<orig, exported, calls>>

\* The loop each handler returns to.
Loop ==
    [HandleBookmarks |-> "MergeBookmarks", HandleTags |-> "MergeTags",
     HandleTagMaps |-> "MergeTagMaps", HandleUserMarks |-> "MergeUserMarks",
     HandleNotes |-> "MergeNotes"]

\* handleMergeConflict with the sides of a chosen row exchanged in the entry.
resultDiscardingChosen(cs, selected) ==
    [key \in DOMAIN cs |->
        IF selected[key] = "Left"
        THEN MergeSolution("LeftSide", cs[key].Left, cs[key].Right)
        ELSE MergeSolution("RightSide", cs[key].Left, cs[key].Right)]

\* handleMergeConflict: the result map, one entry for every key of the
\* conflicts, built from the answer selected for that key.
result(cs, selected) ==
    [key \in DOMAIN cs |->
        IF selected[key] = "Left"
        THEN MergeSolution("LeftSide", cs[key].Left, cs[key].Right)
        ELSE MergeSolution("RightSide", cs[key].Right, cs[key].Left)]

\* handleMergeConflict: one answer for every key of the conflicts; the result
\* takes the place of the loop's solution. An interrupt exits, any other error
\* of the prompt panics.
handleMergeConflict ==
    /\ pc \in DOMAIN Loop
    /\ \E prompt \in {"answered", "interrupted", "failed"} :
          IF prompt = "answered"
          THEN \E selected \in [DOMAIN conflicts -> {"Left", "Right"}] :
                  /\ solution' = result(conflicts, selected)
                  /\ pc' = Loop[pc]
          ELSE /\ pc' = IF prompt = "interrupted" THEN "exit" ELSE "panic"
               /\ UNCHANGED solution
    /\ UNCHANGED <<left, right, merged, orig, conflicts, changes, lastErr, applied, exported,
                   calls>>

\* merge.go: ExportJWLBackup is called; log.Fatal when it fails.
Export ==
    /\ pc = "Export"
    /\ exported' = TRUE
    /\ \E err \in {"", "error"} : pc' = IF err = "" THEN "done" ELSE "fatal"
    /\ UNCHANGED <<left, right, merged, orig, conflicts, solution, changes, lastErr, applied,
                   calls>>

Next ==
    \/ MergeLocationsStep
    \/ MergeBookmarksStep
    \/ MergeTagsStep
    \/ MergeTagMapsStep
    \/ MergeUserMarksStep
    \/ MergeNotesStep
    \/ handleMergeConflict
    \/ Export

Spec == Init /\ [][Next]_vars

(***************************************************************************)
(* Properties of merge                                                     *)
(***************************************************************************)
Sides == {"Left", "Right"}

\* The Database merge holds for a side.
Pending(side) == IF side = "Left" THEN left ELSE right

\* The row of the list with the ID.
Target(list, id) == CHOOSE r \in Rows(list) : ID(r) = id

\* The ID is that of a non-nil row of the list, found at the ID's index.
Resolves(list, id) ==
    /\ id \in 1..(Len(list) - 1)
    /\ ~IsNil(At(list, id))
    /\ ID(At(list, id)) = id

IsPresent(row, name) == FieldKind(row, name) = "int" \/ row[name].Valid

\* Every present value of the field resolves in the list.
AllResolve(rows, name, list) ==
    \A m \in Rows(rows) : IsPresent(m, name) => Resolves(list, FieldInt(m, name))

\* Every present foreign key of the merged Database resolves in the merged
\* table it refers to.
ForeignKeysResolve ==
    /\ AllResolve(merged.Bookmark, "LocationID", merged.Location)
    /\ AllResolve(merged.Bookmark, "PublicationLocationID", merged.Location)
    /\ AllResolve(merged.UserMark, "LocationID", merged.Location)
    /\ AllResolve(merged.Note, "LocationID", merged.Location)
    /\ AllResolve(merged.Note, "UserMarkID", merged.UserMark)
    /\ AllResolve(merged.TagMap, "TagID", merged.Tag)
    /\ AllResolve(merged.TagMap, "LocationID", merged.Location)
    /\ AllResolve(merged.TagMap, "NoteID", merged.Note)
    /\ AllResolve(merged.BlockRange, "UserMarkID", merged.UserMark)

\* What a row is apart from its ID and its foreign keys.
Content(row) ==
    CASE TypeOfRow(row) = "Bookmark" -> <<row.Slot, row.Title>>
      [] TypeOfRow(row) = "UserMark" -> <<row.UserMarkGUID, row.ColorIndex>>
      [] TypeOfRow(row) = "Note" -> <<row.GUID, row.Content>>
      [] TypeOfRow(row) = "TagMap" ->
            <<row.Position, row.LocationID.Valid, row.NoteID.Valid>>
      [] TypeOfRow(row) = "BlockRange" ->
            <<row.BlockType, row.Identifier, row.StartToken, row.EndToken>>

\* The logical entity a row is, whatever its ID.
Entity(row) ==
    CASE TypeOfRow(row) = "Location" -> LocationUniqueKey(row)
      [] TypeOfRow(row) = "Tag" -> TagUniqueKey(row)
      [] TypeOfRow(row) = "UserMark" -> row.UserMarkGUID
      [] TypeOfRow(row) = "Note" -> row.GUID

\* The merged row m refers by the field to the entity that the row s referred
\* to in the Database it was imported with; a UserMark that lost an overlap is
\* referred to through the mark that won it.
SameTarget(m, s, name, table, side) ==
    IsPresent(m, name) =>
        \/ Entity(At(merged[table], FieldInt(m, name)))
              = Entity(Target(orig[side][table], FieldInt(s, name)))
        \/ /\ table = "UserMark"
           /\ \A w \in Rows(merged.UserMark) :
                 Entity(w) # Entity(Target(orig[side][table], FieldInt(s, name)))

\* The foreign keys of each table: the field and the table it refers to.
ForeignKeys ==
    [Bookmark |-> {<<"LocationID", "Location">>, <<"PublicationLocationID", "Location">>},
     UserMark |-> {<<"LocationID", "Location">>},
     Note |-> {<<"LocationID", "Location">>, <<"UserMarkID", "UserMark">>},
     TagMap |-> {<<"TagID", "Tag">>, <<"LocationID", "Location">>, <<"NoteID", "Note">>},
     BlockRange |-> {<<"UserMarkID", "UserMark">>}]

\* Every merged row of the table has a row it comes from (the same content in
\* one of the imported Databases) whose foreign keys referred to the entities
\* that the merged row's refer to.
RefersAsImported(from) ==
    \A m \in Rows(merged[from]) :
        \E side \in Sides : \E s \in Rows(orig[side][from]) :
            /\ Content(s) = Content(m)
            /\ \A fk \in ForeignKeys[from] : SameTarget(m, s, fk[1], fk[2], side)

ForeignKeysKeepEntity == \A from \in DOMAIN ForeignKeys : RefersAsImported(from)

NoMergerFailed == \A t \in Tables : lastErr[t] = ""

\* C1: after the whole of merge, every merger having returned without error,
\* every present foreign key of the merged Database is the ID of a non-nil row
\* of the merged table it refers to, and that row is the entity the row it
\* comes from referred to in its imported Database.
C1_ForeignKeysIntact ==
    (pc = "done" /\ NoMergerFailed) => (ForeignKeysResolve /\ ForeignKeysKeepEntity)

\* In the pending list of both sides, every present value of the field is the
\* imported one looked up in the side's mapping of the changes.
Applied(table, name, idChanges) ==
    \A side \in Sides :
        /\ Len(Pending(side)[table]) = Len(orig[side][table])
        /\ \A i \in 1..Len(orig[side][table]) :
              (~IsNil(orig[side][table][i]) /\ IsPresent(orig[side][table][i], name))
              => FieldInt(Pending(side)[table][i], name)
                    = Lookup(idChanges[side], FieldInt(orig[side][table][i], name))

\* C2: when a table that refers to Locations is about to be merged, the changes
\* of the Locations merge have been applied to its Location foreign keys on
\* both sides: Bookmark.LocationID and PublicationLocationID, TagMap.LocationID,
\* UserMark.LocationID, Note.LocationID.
C2_LocationChangesApplied ==
    /\ pc = "MergeBookmarks" =>
          /\ Applied("Bookmark", "LocationID", changes.Locations)
          /\ Applied("Bookmark", "PublicationLocationID", changes.Locations)
    /\ pc = "MergeTagMaps" => Applied("TagMap", "LocationID", changes.Locations)
    /\ pc = "MergeUserMarks" => Applied("UserMark", "LocationID", changes.Locations)
    /\ pc = "MergeNotes" => Applied("Note", "LocationID", changes.Locations)

\* C3: when MergeTagMaps is about to be called, Tags, Notes and Locations have
\* each been merged without error and their changes have been applied to the
\* TagID, NoteID and LocationID of the pending TagMaps of both sides.
C3_TagMapsAfterTagsNotesLocations ==
    pc = "MergeTagMaps" =>
        /\ lastErr.Tags = "" /\ lastErr.Notes = "" /\ lastErr.Locations = ""
        /\ Applied("TagMap", "TagID", changes.Tags)
        /\ Applied("TagMap", "NoteID", changes.Notes)
        /\ Applied("TagMap", "LocationID", changes.Locations)

\* C8: once a merger has returned an error that is no MergeConflictError, merge
\* is aborted and ExportJWLBackup is not called; ExportJWLBackup has been
\* called only where every merger last returned without error.
C8_NoExportAfterError ==
    /\ \A t \in Tables : lastErr[t] = "error" => (pc = "fatal" /\ ~exported)
    /\ exported => NoMergerFailed

\* Two Locations have the same UniqueKey: the fields written into it agree.
SameLocationKey(a, b) ==
    /\ \A f \in {"BookNumber", "ChapterNumber", "DocumentID", "Track"} :
          a[f].Int32 = b[f].Int32
    /\ \A f \in {"IssueTagNumber", "MepsLanguage", "LocationType"} : a[f] = b[f]
    /\ a.KeySymbol.String = b.KeySymbol.String

MergerAt ==
    [MergeLocations |-> "Locations", MergeBookmarks |-> "Bookmarks",
     MergeTags |-> "Tags", MergeTagMaps |-> "TagMaps",
     MergeUserMarks |-> "UserMarks", MergeNotes |-> "Notes"]

\* The step is a call of a merger that returns err.
Returns(err) == pc \in DOMAIN MergerAt /\ lastErr'[MergerAt[pc]] = err

LiveInit ==
    /\ Init
    /\ Len(left.Location) = 2
    /\ right.Location = left.Location
    /\ right.Tag = <<Nil>>

\* merge runs on: it is one sequential process, and a prompt is answered,
\* interrupted or failed, never left open.
SpecLive == LiveInit /\ [][Next]_vars /\ WF_vars(Next)

\* How a run of merge ends: after the export, by log.Fatal, by the exit on an
\* interrupted prompt, by a panic.
Ended == {"done", "fatal", "exit", "panic"}

\* C13: every conflict loop of merge terminates: where every prompt is answered
\* and no merger fails otherwise, merge comes through every loop to the export,
\* so that every run of merge ends.
C13_LoopsTerminate == <>(pc \in Ended)

(***************************************************************************)
(* handleMergeConflict on conflicts with more than one key: two Bookmarks  *)
(* on either side, in the same two slots and under different titles.       *)
(***************************************************************************)

TwoBookmarks(loc, title) ==
    <<Nil, BookmarkRow(1, loc, loc, 1, title), BookmarkRow(2, loc, loc, 2, title)>>

HandleInit ==
    /\ \E ll \in LeftLocations :
          left = [LeftDatabase(ll) EXCEPT !.Bookmark = TwoBookmarks(LastID(ll), TitleA)]
    /\ \E rl \in RightLocations :
          right = Database(rl, TwoBookmarks(LastID(rl), TitleB),
                           <<Nil>>, <<Nil>>, <<Nil>>, <<Nil>>, <<Nil>>)
    /\ Imported

SpecHandle == HandleInit /\ [][Next]_vars

\* An entry of the resolution map that settles a conflict for one of its
\* sides: the side's row is the solution, the other side's row is discarded.
Chooses(entry, conflict) ==
    \/ /\ entry.Side = "LeftSide"
       /\ entry.Solution = conflict.Left
       /\ entry.Discarded = conflict.Right
    \/ /\ entry.Side = "RightSide"
       /\ entry.Solution = conflict.Right
       /\ entry.Discarded = conflict.Left

\* C14: when handleMergeConflict returns, the resolution map has exactly the
\* keys of the reported conflicts, and every entry names the Left side with the
\* conflict's Left row as solution and its Right row as discarded, or the Right
\* side with the Right row as solution and the Left row as discarded. When a
\* prompt is interrupted the process exits, and nothing has been or will be
\* exported.
C14_ResolutionMatchesConflicts ==
    /\ [][(pc \in DOMAIN Loop /\ pc' = Loop[pc]) =>
             (/\ DOMAIN solution' = DOMAIN conflicts
              /\ \A key \in DOMAIN conflicts :
                    Chooses(solution'[key], conflicts[key]))]_vars
    /\ [][(pc \in DOMAIN Loop /\ pc' # Loop[pc]) =>
             (pc' \in {"exit", "panic"} /\ ~exported')]_vars
    /\ [](pc = "exit" => ~exported)
    /\ [][pc # "exit"]_vars

\* handleMergeConflict returned on a conflict of two keys, the Left row chosen
\* for one and the Right row for the other.
C14_Witness ==
    /\ pc = "MergeBookmarks"
    /\ Cardinality(DOMAIN conflicts) = 2
    /\ DOMAIN solution = DOMAIN conflicts
    /\ \E k1, k2 \in DOMAIN solution :
          /\ solution[k1].Side = "LeftSide"
          /\ solution[k1].Solution = conflicts[k1].Left
          /\ solution[k2].Side = "RightSide"
          /\ solution[k2].Solution = conflicts[k2].Right
          /\ solution[k2].Solution # solution[k2].Discarded

\* A prompt was interrupted and the process has exited.
C14_Interrupted == pc = "exit" /\ ~exported

====
